---- MODULE Spec2Model ----
(***************************************************************************)
(* Model of the chat relay ChatServer (src/src/server.ts): the session     *)
(* registry connectedUsers, the socket.io room adapter, and the handlers   *)
(* that handleConnection attaches to each socket.  Every action is one     *)
(* synchronous segment of a handler: from an event (or the resolution of   *)
(* an awaited axios call) up to the next await or the handler's end.       *)
(***************************************************************************)
EXTENDS Integers, Sequences, FiniteSets, TLC

\* Bounds of the model.
MaxConns == 2
MaxInputs == 2

Conns == 1..MaxConns
Users == {"A", "B"}
Rooms == {"conv-1", "conv-2"}
NoConv == "none"
NoUser == "nobody"

\* socket.handshake.query.userId is the client's choice.  The code treats all
\* user ids alike, so the first socket is taken to be A's.
Handshake(c) == IF c = 1 THEN {"A"} ELSE Users

\* booking.conversation of a bookingCreated event: a new conversation or none.
NewConversations == {"conv-2", NoConv}

\* Outcomes of an axios call: resolved, rejected with status 401, rejected otherwise.
Failures == {"401", "other"}

\* A booking as far as the server reads it: booking.conversation (absent or
\* {id, active}).
Booking(conv, active) == [conv |-> conv, active |-> active]

\* The lists GET /bookings/findByUserGuestOrHost may answer with.
FetchResponses ==
    { {Booking("conv-1", TRUE), Booking(NoConv, FALSE)},
      {Booking("conv-2", FALSE)} }

VARIABLES
    connectedUsers, \* this.connectedUsers: userId -> set of socket ids
    sockets,        \* io.sockets.sockets: the sockets that are connected
    userId,         \* socket.handshake.query.userId of each socket
    phase,          \* position of handleConnection for each socket
    rooms,          \* the adapter's socket id -> rooms
    posts,          \* sendMessage handlers awaiting axios.post
    reads,          \* openChat handlers awaiting axios.put
    fans,           \* bookingCreated handlers awaiting axios.get
    inbox,          \* packets written to each socket, in order
    persisted,      \* messages the backend accepted
    inputs          \* number of client events received so far

vars == <<connectedUsers, sockets, userId, phase, rooms, posts, reads, fans,
          inbox, persisted, inputs>>

\* ---------------------------------------------------------------------------
\* Packets a socket receives.  One record shape for all of them.
\* id stands for the content of a message and from for the socket it came from.
Event(type, id, conv, user, data, from) ==
    [type |-> type, id |-> id, conv |-> conv, user |-> user, data |-> data,
     from |-> from]

MessageReceived(p)       == Event("messageReceived", p.id, p.conv, NoUser, {}, p.conn)
Ack(p)                   == Event("ack", p.id, NoConv, NoUser, {}, p.conn)
MessageError(p)          == Event("messageError", p.id, NoConv, NoUser, {}, p.conn)
TokenExpired             == Event("tokenExpired", 0, NoConv, NoUser, {}, 0)
BookingsUpdated(data)    == Event("bookingsUpdated", 0, NoConv, NoUser, data, 0)
MessagesRead(conv, user) == Event("messagesRead", 0, conv, user, {}, 0)
TypingEvent(user)        == Event("typing", 0, NoConv, user, {}, 0)
UserJoined(user)         == Event("userJoined", 0, NoConv, user, {}, 0)
UserLeft(user)           == Event("userLeft", 0, NoConv, user, {}, 0)

\* socket.emit / broadcast: the packet reaches the connected sockets among the
\* targets; a packet for a closed socket is dropped.
Emit(inb, targets, ev) ==
    [c \in Conns |-> IF c \in targets /\ c \in sockets
                     THEN Append(inb[c], ev) ELSE inb[c]]

\* Mutant: io.emit, a broadcast to every connected socket.
RoomTargets_Broadcast(room) == sockets

\* io.to(room): the connected sockets the adapter lists in the room.
RoomTargets(room) == {c \in sockets : room \in rooms[c]}

\* socket.to(room): the same, except the emitting socket.
OtherRoomTargets(c, room) == RoomTargets(room) \ {c}

\* ---------------------------------------------------------------------------
\* The 'disconnect' handler (registered last in handleConnection).
DisconnectHandler(reg, c) ==
    LET u == userId[c] IN
    IF u \notin DOMAIN reg THEN reg
    ELSE IF reg[u] \ {c} = {}
         THEN [v \in DOMAIN reg \ {u} |-> reg[v]]
         ELSE [reg EXCEPT ![u] = reg[u] \ {c}]

\* The registry after socket c closes: the 'disconnect' handler runs only if
\* handleConnection got as far as registering it.
RegistryAfterClose(c) ==
    IF c \in sockets /\ phase[c] = "active"
    THEN DisconnectHandler(connectedUsers, c)
    ELSE connectedUsers

\* A bookingCreated handler holds userSockets, a reference to the Set that was
\* in the map when it looked the user up.  Once the entry is deleted that Set
\* stays empty; a later entry for the user is another Set.
FansAfterClose(c) ==
    LET reg == RegistryAfterClose(c) IN
    { IF t.user \in DOMAIN connectedUsers /\ t.user \notin DOMAIN reg
      THEN [t EXCEPT !.stale = TRUE] ELSE t : t \in fans }

\* The adapter after socket c closes (socket.io leaves all rooms on close).
RoomsAfterClose(c) ==
    IF c \in sockets THEN [rooms EXCEPT ![c] = {}] ELSE rooms

Init ==
    /\ connectedUsers = << >>
    /\ sockets = {}
    /\ userId = [c \in Conns |-> NoUser]
    /\ phase = [c \in Conns |-> "new"]
    /\ rooms = [c \in Conns |-> {}]
    /\ posts = {}
    /\ reads = {}
    /\ fans = {}
    /\ inbox = [c \in Conns |-> << >>]
    /\ persisted = {}
    /\ inputs = 0

\* ---------------------------------------------------------------------------
\* handleConnection up to the await of the bootstrap axios.get.
Connect(c, u) ==
    /\ phase[c] = "new"
    /\ userId' = [userId EXCEPT ![c] = u]
    /\ sockets' = sockets \cup {c}
    /\ connectedUsers' =
         IF u \in DOMAIN connectedUsers
         THEN [connectedUsers EXCEPT ![u] = @ \cup {c}]
         ELSE [v \in DOMAIN connectedUsers \cup {u} |->
                 IF v = u THEN {c} ELSE connectedUsers[v]]
    /\ phase' = [phase EXCEPT ![c] = "bootstrapping"]
    /\ UNCHANGED <<rooms, posts, reads, fans, inbox, persisted, inputs>>

\* The rooms a bootstrap response makes the socket join.
BootstrapRooms(data) == {b.conv : b \in {x \in data : x.conv # NoConv}}

\* The bootstrap axios.get resolves: join rooms, emit bookingsUpdated, attach
\* the handlers.  socket.join does not look at whether the socket is connected.
BootstrapOk(c, data) ==
    /\ phase[c] = "bootstrapping"
    /\ rooms' = [rooms EXCEPT ![c] = @ \cup BootstrapRooms(data)]
    /\ inbox' = Emit(inbox, {c}, BookingsUpdated(data))
    /\ phase' = [phase EXCEPT ![c] = "active"]
    /\ UNCHANGED <<connectedUsers, sockets, userId, posts, reads, fans,
                   persisted, inputs>>

\* The bootstrap axios.get rejects: tokenExpired on 401, socket.disconnect(),
\* return.  No 'disconnect' handler has been registered.
BootstrapFail(c, kind) ==
    /\ phase[c] = "bootstrapping"
    /\ inbox' = IF kind = "401" THEN Emit(inbox, {c}, TokenExpired) ELSE inbox
    /\ connectedUsers' = RegistryAfterClose(c)
    /\ fans' = FansAfterClose(c)
    /\ rooms' = RoomsAfterClose(c)
    /\ sockets' = sockets \ {c}
    /\ phase' = [phase EXCEPT ![c] = "failed"]
    /\ UNCHANGED <<userId, posts, reads, persisted, inputs>>

\* The client (or the transport) closes socket c.
ClientDisconnect(c) ==
    /\ c \in sockets
    /\ connectedUsers' = RegistryAfterClose(c)
    /\ fans' = FansAfterClose(c)
    /\ rooms' = RoomsAfterClose(c)
    /\ sockets' = sockets \ {c}
    /\ UNCHANGED <<userId, phase, posts, reads, inbox, persisted, inputs>>

\* Mutant: the handlers are attached before the bootstrap call.
Listening_FromConnect(c) ==
    c \in sockets /\ phase[c] \in {"bootstrapping", "active"} /\ inputs < MaxInputs

\* A client event reaches a handler only on a connected socket whose
\* handleConnection has attached the handlers.
Listening(c) == c \in sockets /\ phase[c] = "active" /\ inputs < MaxInputs

\* A client event on a connected socket whose handleConnection still awaits the
\* bootstrap call: no listener is attached yet and the event is lost.
UnheardEvent(c) ==
    /\ c \in sockets /\ phase[c] = "bootstrapping" /\ inputs < MaxInputs
    /\ inputs' = inputs + 1
    /\ UNCHANGED <<connectedUsers, sockets, userId, phase, rooms, posts, reads,
                   fans, inbox, persisted>>

\* ---------------------------------------------------------------------------
\* 'sendMessage' up to the await of axios.post.
SendMessage(c, conv, hasAck) ==
    /\ Listening(c)
    /\ inputs' = inputs + 1
    /\ posts' = posts \cup {[id |-> inputs + 1, conn |-> c, conv |-> conv,
                             hasAck |-> hasAck]}
    /\ UNCHANGED <<connectedUsers, sockets, userId, phase, rooms, reads, fans,
                   inbox, persisted>>

\* Mutant: the callback is called before the multicast.
PostOk_AckFirst(p) ==
    /\ p \in posts
    /\ posts' = posts \ {p}
    /\ persisted' = persisted \cup {p.id}
    /\ inbox' = Emit(Emit(inbox, {p.conn},
                          IF p.hasAck THEN Ack(p) ELSE MessageError(p)),
                     RoomTargets(p.conv), MessageReceived(p))
    /\ UNCHANGED <<connectedUsers, sockets, userId, phase, rooms, reads, fans,
                   inputs>>

\* axios.post resolves: multicast, then callback({success: true}).  Without a
\* callback the call throws a TypeError into the catch block, whose
\* error.response is undefined: messageError goes to the sender.
PostOk(p) ==
    /\ p \in posts
    /\ posts' = posts \ {p}
    /\ persisted' = persisted \cup {p.id}
    /\ inbox' = Emit(Emit(inbox, RoomTargets(p.conv), MessageReceived(p)),
                     {p.conn},
                     IF p.hasAck THEN Ack(p) ELSE MessageError(p))
    /\ UNCHANGED <<connectedUsers, sockets, userId, phase, rooms, reads, fans,
                   inputs>>

\* Mutant: tokenExpired is emitted on 401 but the socket is left connected.
PostFail_NoDisconnect(p, kind) ==
    /\ p \in posts
    /\ posts' = posts \ {p}
    /\ inbox' = Emit(inbox, {p.conn},
                     IF kind = "401" THEN TokenExpired ELSE MessageError(p))
    /\ UNCHANGED <<connectedUsers, fans, rooms, sockets, userId, phase, reads,
                   persisted, inputs>>

\* Mutant: a rejection other than 401 is only logged.
PostFail_Swallow(p, kind) ==
    /\ p \in posts
    /\ posts' = posts \ {p}
    /\ IF kind = "401"
       THEN /\ inbox' = Emit(inbox, {p.conn}, TokenExpired)
            /\ connectedUsers' = RegistryAfterClose(p.conn)
            /\ fans' = FansAfterClose(p.conn)
            /\ rooms' = RoomsAfterClose(p.conn)
            /\ sockets' = sockets \ {p.conn}
       ELSE UNCHANGED <<inbox, connectedUsers, fans, rooms, sockets>>
    /\ UNCHANGED <<userId, phase, reads, persisted, inputs>>

\* axios.post rejects: 401 -> tokenExpired and socket.disconnect(); otherwise
\* messageError to the sender.
PostFail(p, kind) ==
    /\ p \in posts
    /\ posts' = posts \ {p}
    /\ IF kind = "401"
       THEN /\ inbox' = Emit(inbox, {p.conn}, TokenExpired)
            /\ connectedUsers' = RegistryAfterClose(p.conn)
            /\ fans' = FansAfterClose(p.conn)
            /\ rooms' = RoomsAfterClose(p.conn)
            /\ sockets' = sockets \ {p.conn}
       ELSE /\ inbox' = Emit(inbox, {p.conn}, MessageError(p))
            /\ UNCHANGED <<connectedUsers, fans, rooms, sockets>>
    /\ UNCHANGED <<userId, phase, reads, persisted, inputs>>

\* ---------------------------------------------------------------------------
\* 'openChat' up to the await of axios.put.
OpenChat(c, conv) ==
    /\ Listening(c)
    /\ inputs' = inputs + 1
    /\ reads' = reads \cup {[id |-> inputs + 1, conn |-> c, conv |-> conv]}
    /\ UNCHANGED <<connectedUsers, sockets, userId, phase, rooms, posts, fans,
                   inbox, persisted>>

\* Mutant: messagesRead goes to the whole room, the reader included.
ReadOk_ToRoom(r) ==
    /\ r \in reads
    /\ reads' = reads \ {r}
    /\ inbox' = Emit(inbox, RoomTargets(r.conv),
                     MessagesRead(r.conv, userId[r.conn]))
    /\ UNCHANGED <<connectedUsers, sockets, userId, phase, rooms, posts, fans,
                   persisted, inputs>>

\* axios.put resolves: messagesRead to the other sockets of the room.
ReadOk(r) ==
    /\ r \in reads
    /\ reads' = reads \ {r}
    /\ inbox' = Emit(inbox, OtherRoomTargets(r.conn, r.conv),
                     MessagesRead(r.conv, userId[r.conn]))
    /\ UNCHANGED <<connectedUsers, sockets, userId, phase, rooms, posts, fans,
                   persisted, inputs>>

\* axios.put rejects: console.error only.
ReadFail(r, kind) ==
    /\ r \in reads
    /\ reads' = reads \ {r}
    /\ UNCHANGED <<connectedUsers, sockets, userId, phase, rooms, posts, fans,
                   inbox, persisted, inputs>>

\* ---------------------------------------------------------------------------
\* The loop of 'bookingCreated' over [guestId, ownerId]: starting at position
\* i, the first user with an entry in connectedUsers is the one whose
\* axios.get the handler awaits next; 0 when the loop runs out.
Stakeholder(t, i) == IF i = 1 THEN t.guest ELSE t.owner

NextLookup(t, i, reg) ==
    IF i <= 2 /\ Stakeholder(t, i) \in DOMAIN reg THEN i
    ELSE IF i + 1 <= 2 /\ Stakeholder(t, i + 1) \in DOMAIN reg THEN i + 1
    ELSE 0

\* The handler suspended on the axios.get of position i (none if i = 0).
\* seen and failed are kept for the properties: the connected sockets of the
\* user at the lookup, and whether an earlier axios.get of this loop rejected.
Awaiting(t, i, reg, failed) ==
    IF i = 0 THEN {}
    ELSE {[t EXCEPT !.stage = i,
                    !.user = Stakeholder(t, i),
                    !.stale = FALSE,
                    !.seen = reg[Stakeholder(t, i)] \cap sockets,
                    !.failed = failed]}

\* 'bookingCreated' up to the first await.
BookingCreated(c, guest, owner, conv) ==
    LET t == [id |-> inputs + 1, conn |-> c, guest |-> guest, owner |-> owner,
              conv |-> conv, stage |-> 0, user |-> NoUser, stale |-> FALSE,
              seen |-> {}, failed |-> FALSE]
    IN
    /\ Listening(c)
    /\ inputs' = inputs + 1
    /\ fans' = fans \cup Awaiting(t, NextLookup(t, 1, connectedUsers),
                                 connectedUsers, FALSE)
    /\ UNCHANGED <<connectedUsers, sockets, userId, phase, rooms, posts, reads,
                   inbox, persisted>>

\* Mutant: only the emitting socket is notified.
FanTargets_EmitterOnly(t) ==
    IF t.stale \/ t.user \notin DOMAIN connectedUsers THEN {}
    ELSE connectedUsers[t.user] \cap sockets \cap {t.conn}

\* userSockets.forEach: the ids of the Set whose socket io.sockets.sockets
\* still knows.
FanTargets(t) ==
    IF t.stale \/ t.user \notin DOMAIN connectedUsers THEN {}
    ELSE connectedUsers[t.user] \cap sockets

\* The axios.get of a fan-out resolves: join and notify every socket of the
\* user, then go on with the loop.
FanOk(t, data) ==
    /\ t \in fans
    /\ rooms' = [c \in Conns |->
                   IF c \in FanTargets(t) /\ t.conv # NoConv
                   THEN rooms[c] \cup {t.conv} ELSE rooms[c]]
    /\ inbox' = Emit(inbox, FanTargets(t), BookingsUpdated(data))
    /\ fans' = (fans \ {t}) \cup
               Awaiting(t, NextLookup(t, t.stage + 1, connectedUsers),
                        connectedUsers, t.failed)
    /\ UNCHANGED <<connectedUsers, sockets, userId, phase, posts, reads,
                   persisted, inputs>>

\* Mutant: the rejection leaves the loop.
FanFail_Abort(t, kind) ==
    /\ t \in fans
    /\ fans' = fans \ {t}
    /\ UNCHANGED <<connectedUsers, sockets, userId, phase, rooms, posts, reads,
                   inbox, persisted, inputs>>

\* The axios.get of a fan-out rejects: console.error, then go on with the loop.
FanFail(t, kind) ==
    /\ t \in fans
    /\ fans' = (fans \ {t}) \cup
               Awaiting(t, NextLookup(t, t.stage + 1, connectedUsers),
                        connectedUsers, TRUE)
    /\ UNCHANGED <<connectedUsers, sockets, userId, phase, rooms, posts, reads,
                   inbox, persisted, inputs>>

\* ---------------------------------------------------------------------------
\* Mutant: the typing packet goes to the whole room, the sender included.
Typing_ToRoom(c, conv) ==
    /\ c \in sockets /\ phase[c] = "active" /\ inputs < MaxInputs
    /\ inputs' = inputs + 1
    /\ inbox' = Emit(inbox, RoomTargets(conv), TypingEvent(userId[c]))
    /\ UNCHANGED <<connectedUsers, sockets, userId, phase, rooms, posts, reads,
                   fans, persisted>>

\* 'typing'
Typing(c, conv) ==
    /\ Listening(c)
    /\ inputs' = inputs + 1
    /\ inbox' = Emit(inbox, OtherRoomTargets(c, conv), TypingEvent(userId[c]))
    /\ UNCHANGED <<connectedUsers, sockets, userId, phase, rooms, posts, reads,
                   fans, persisted>>

\* 'joinRoom'
JoinRoom(c, conv) ==
    /\ Listening(c)
    /\ inputs' = inputs + 1
    /\ rooms' = [rooms EXCEPT ![c] = @ \cup {conv}]
    /\ inbox' = Emit(inbox, OtherRoomTargets(c, conv), UserJoined(userId[c]))
    /\ UNCHANGED <<connectedUsers, sockets, userId, phase, posts, reads, fans,
                   persisted>>

\* Mutant: userLeft is announced but the socket stays in the room.
LeaveRoom_StayIn(c, conv) ==
    /\ c \in sockets /\ phase[c] = "active" /\ inputs < MaxInputs
    /\ inputs' = inputs + 1
    /\ inbox' = Emit(inbox, OtherRoomTargets(c, conv), UserLeft(userId[c]))
    /\ UNCHANGED <<connectedUsers, sockets, userId, phase, rooms, posts, reads,
                   fans, persisted>>

\* 'leaveRoom'
LeaveRoom(c, conv) ==
    /\ Listening(c)
    /\ inputs' = inputs + 1
    /\ rooms' = [rooms EXCEPT ![c] = @ \ {conv}]
    /\ inbox' = Emit(inbox, OtherRoomTargets(c, conv), UserLeft(userId[c]))
    /\ UNCHANGED <<connectedUsers, sockets, userId, phase, posts, reads, fans,
                   persisted>>

Next ==
    \/ \E c \in Conns : \E u \in Handshake(c) : Connect(c, u)
    \/ \E c \in Conns, data \in FetchResponses : BootstrapOk(c, data)
    \/ \E c \in Conns, kind \in Failures : BootstrapFail(c, kind)
    \/ \E c \in Conns : ClientDisconnect(c)
    \/ \E c \in Conns, conv \in Rooms, hasAck \in BOOLEAN : SendMessage(c, conv, hasAck)
    \/ \E p \in posts : PostOk(p)
    \/ \E p \in posts, kind \in Failures : PostFail(p, kind)
    \/ \E c \in Conns, conv \in Rooms : OpenChat(c, conv)
    \/ \E r \in reads : ReadOk(r)
    \/ \E r \in reads, kind \in Failures : ReadFail(r, kind)
    \/ \E c \in Conns, guest \in Users, owner \in Users, conv \in NewConversations :
          BookingCreated(c, guest, owner, conv)
    \/ \E t \in fans, data \in FetchResponses : FanOk(t, data)
    \/ \E t \in fans, kind \in Failures : FanFail(t, kind)
    \/ \E c \in Conns, conv \in Rooms : Typing(c, conv)
    \/ \E c \in Conns, conv \in Rooms : JoinRoom(c, conv)
    \/ \E c \in Conns, conv \in Rooms : LeaveRoom(c, conv)
    \/ \E c \in Conns : UnheardEvent(c)

Spec == Init /\ [][Next]_vars

\* ---------------------------------------------------------------------------
\* Vocabulary of the properties.

\* The connected sockets of user u.
OpenConnsOf(u) == {c \in sockets : userId[c] = u}

\* Every socket id the registry holds.
Registered == UNION {connectedUsers[u] : u \in DOMAIN connectedUsers}

\* Socket c is written packet ev in the step.
Got(c, ev) ==
    \E i \in (Len(inbox[c]) + 1)..Len(inbox'[c]) : inbox'[c][i] = ev

\* Socket c is written nothing in the step.
GotNothing(c) == inbox'[c] = inbox[c]

\* The positions of the packets of a type in the inbox of c.
Positions(c, type) == {i \in 1..Len(inbox[c]) : inbox[c][i].type = type}

\* C1: a user identity is a key of connectedUsers iff that user has at least
\* one open connection, and the set under it holds only ids of that user's
\* open connections.
C1_RegistryIffOpen ==
    \A u \in Users :
        /\ u \in DOMAIN connectedUsers <=> OpenConnsOf(u) # {}
        /\ u \in DOMAIN connectedUsers => connectedUsers[u] \subseteq OpenConnsOf(u)

\* C2: when the axios.post of a sendMessage to conversation X resolves,
\* messageReceived is written to exactly the connections joined to room X at
\* that moment, the sender among them if it is joined, and to no other.
C2_MulticastExactlyRoom ==
    [][\A p \in posts :
          (p \notin posts' /\ p.id \in persisted') =>
              \A c \in Conns :
                  IF c \in sockets /\ p.conv \in rooms[c]
                  THEN Got(c, MessageReceived(p))
                  ELSE \A i \in 1..Len(inbox'[c]) :
                          inbox'[c][i] # MessageReceived(p)]_vars

\* C2 witness: a sender has received its own message while another listening
\* connection, outside the room, has received no message.
C2_Witness ==
    \E c \in sockets, d \in sockets :
        /\ c # d /\ phase[d] = "active"
        /\ \E i \in Positions(c, "messageReceived") :
              inbox[c][i].from = c /\ inbox[c][i].conv \notin rooms[d]
        /\ Positions(d, "messageReceived") = {}

\* C3: two messages one connection sent to the same conversation reach every
\* connection in the order in which they were sent.
C3_SenderOrderKept ==
    \A c \in Conns :
        \A i \in Positions(c, "messageReceived"), j \in Positions(c, "messageReceived") :
            (i < j /\ inbox[c][i].from = inbox[c][j].from
                   /\ inbox[c][i].conv = inbox[c][j].conv)
                => inbox[c][i].id < inbox[c][j].id

\* C4: when the bootstrap axios.get of a connection that has dropped in the
\* meantime resolves, the connection is in no room and no registry set holds
\* its id; a fan-out joins no socket that is gone.
C4_NoStateForAbsent ==
    [][/\ \A c \in Conns :
            (phase[c] = "bootstrapping" /\ c \notin sockets
                /\ phase'[c] # "bootstrapping")
                => (rooms'[c] = {} /\ c \notin Registered')
       /\ \A c \in Conns :
            (c \notin sockets /\ c \notin sockets' /\ phase[c] # "bootstrapping")
                => rooms'[c] = rooms[c]]_vars

\* C5: when the axios.post of a sendMessage rejects with 401, no connection is
\* written messageReceived, the sender is written tokenExpired as its last
\* packet and is disconnected, and the message is never acknowledged: only
\* persisted messages are ever received or acknowledged.
C5_AuthExpiredOnSend ==
    /\ [][\A p \in posts :
             PostFail(p, "401") =>
                 /\ \A c \in Conns \ {p.conn} : GotNothing(c)
                 /\ p.conn \in sockets =>
                        inbox'[p.conn] = Append(inbox[p.conn], TokenExpired)
                 /\ p.conn \notin sockets'
                 /\ p.id \notin persisted' /\ p \notin posts']_vars
    /\ [](\A c \in Conns :
             \A i \in Positions(c, "messageReceived") \cup Positions(c, "ack") :
                 inbox[c][i].id \in persisted)

\* C5 witness: a connection that was listening is closed with tokenExpired as
\* its last packet, and a message of its own was never persisted.
C5_Witness ==
    \E c \in Conns :
        /\ phase[c] = "active" /\ c \notin sockets
        /\ Len(inbox[c]) > 0 /\ inbox[c][Len(inbox[c])] = TokenExpired
        /\ \E id \in 1..inputs :
              /\ id \notin persisted
              /\ \A p \in posts : p.id # id
              /\ reads = {} /\ fans = {}

\* C6: a connection whose bootstrap axios.get rejects with 401 is written
\* tokenExpired, is disconnected, and was in no room up to then.
C6_NoJoinBefore401 ==
    [][\A c \in Conns :
          BootstrapFail(c, "401") =>
              /\ rooms[c] = {}
              /\ c \in sockets => inbox'[c] = Append(inbox[c], TokenExpired)
              /\ c \notin sockets']_vars

\* C7 as stated: once the fan-out is through with a stakeholder, each of the
\* stakeholder's connections that was open at the lookup and still is has been
\* written bookingsUpdated and is in the booking's room.
C7_AlwaysNotified ==
    [][\A t \in fans :
          (\A t2 \in fans' : t2.id # t.id \/ t2.stage # t.stage) =>
              \A c \in t.seen \cap sockets :
                  /\ \E data \in FetchResponses : Got(c, BookingsUpdated(data))
                  /\ t.conv # NoConv => t.conv \in rooms'[c]]_vars

\* C7 amended: every open connection is in the registry set of its user, and
\* when the axios.get of a fan-out for user U resolves, every connection of U
\* that was open at the lookup and still is gets bookingsUpdated with the fresh
\* list and is in the booking's room, if the booking has a conversation.
C7_NotifiedOnSuccess ==
    /\ [](\A c \in sockets :
             userId[c] \in DOMAIN connectedUsers /\ c \in connectedUsers[userId[c]])
    /\ [][\A t \in fans, data \in FetchResponses :
             FanOk(t, data) =>
                 \A c \in t.seen \cap sockets :
                     /\ inbox'[c] = Append(inbox[c], BookingsUpdated(data))
                     /\ t.conv # NoConv => t.conv \in rooms'[c]]_vars

\* C7 witness: two open connections of one user, each with a bookingsUpdated
\* that is not the bootstrap's, both in the new conversation's room.
C7_Witness ==
    \E c \in sockets, d \in sockets :
        /\ c # d /\ userId[c] = userId[d]
        /\ Cardinality(Positions(c, "bookingsUpdated")) >= 2
        /\ Cardinality(Positions(d, "bookingsUpdated")) >= 2
        /\ \E conv \in NewConversations : conv \in rooms[c] \cap rooms[d]

\* C8: a rejected axios.get of a fan-out writes nothing, closes nothing and
\* leaves the rooms alone, the loop goes on to the owner, and a stakeholder
\* whose own axios.get resolves after the other's was rejected is notified and
\* joined all the same.
C8_FailureIsolated ==
    /\ [][\A t \in fans, kind \in Failures :
             FanFail(t, kind) =>
                 /\ sockets' = sockets /\ inbox' = inbox /\ rooms' = rooms
                 /\ (t.stage = 1 /\ t.owner \in DOMAIN connectedUsers) =>
                        \E t2 \in fans' :
                            t2.id = t.id /\ t2.stage = 2 /\ t2.user = t.owner]_vars
    /\ [][\A t \in fans, data \in FetchResponses :
             (t.failed /\ FanOk(t, data)) =>
                 /\ t.conn \in sockets => t.conn \in sockets'
                 /\ \A c \in t.seen \cap sockets :
                        /\ Got(c, BookingsUpdated(data))
                        /\ t.conv # NoConv => t.conv \in rooms'[c]]_vars

\* C8 witness: the guest's axios.get was rejected, the emitter is still
\* connected, and the handler now awaits the owner's, whose connections are up.
C8_Witness ==
    \E t \in fans :
        /\ t.failed /\ t.stage = 2 /\ t.conn \in sockets
        /\ t.seen # {} /\ t.seen \subseteq sockets

\* C9: a sender is acknowledged only for a persisted message, in the step
\* that writes messageReceived to every connection in the room, and the
\* sender's own copy comes before the acknowledgement.
C9_AckAfterMulticast ==
    /\ [][\A p \in posts :
             Got(p.conn, Ack(p)) =>
                 /\ p.id \in persisted'
                 /\ \A c \in sockets : p.conv \in rooms[c] => Got(c, MessageReceived(p))]_vars
    /\ [](\A c \in Conns : \A i \in Positions(c, "ack") :
             /\ inbox[c][i].id \in persisted
             /\ inbox[c][i].from = c
             /\ \A j \in Positions(c, "messageReceived") :
                   inbox[c][j].id = inbox[c][i].id => j < i)

\* C9 witness: a sender holds its own message followed by its acknowledgement.
C9_Witness ==
    \E c \in Conns : \E i \in Positions(c, "ack") :
        \E j \in Positions(c, "messageReceived") :
            inbox[c][j].id = inbox[c][i].id /\ j < i

\* C10: when a connection closes, its user's entry is removed if it was the
\* user's last open connection (the registry shrinks), and otherwise holds
\* exactly the remaining open connections; the other entries do not change.
C10_DisconnectFrame ==
    [][\A c \in sockets :
          c \notin sockets' =>
              LET u == userId[c]
                  others == OpenConnsOf(u) \ {c}
              IN /\ others = {} =>
                        /\ u \notin DOMAIN connectedUsers'
                        /\ Cardinality(DOMAIN connectedUsers')
                              < Cardinality(DOMAIN connectedUsers)
                 /\ others # {} =>
                        /\ u \in DOMAIN connectedUsers'
                        /\ connectedUsers'[u] = others
                 /\ \A v \in DOMAIN connectedUsers \ {u} :
                        /\ v \in DOMAIN connectedUsers'
                        /\ connectedUsers'[v] = connectedUsers[v]]_vars

\* C11: a typing event of connection c for conversation X is written to the
\* connections in room X other than c and to nobody else, never to c, and
\* starts no backend call.
C11_TypingNotEchoed ==
    [][\A c \in Conns, conv \in Rooms :
          Typing(c, conv) =>
              /\ \A d \in Conns :
                    IF d # c /\ d \in sockets /\ conv \in rooms[d]
                    THEN inbox'[d] = Append(inbox[d], TypingEvent(userId[c]))
                    ELSE GotNothing(d)
              /\ posts' = posts /\ reads' = reads /\ fans' = fans
              /\ persisted' = persisted]_vars

\* C11 witness: two connections share a room, one holds a typing packet of
\* the other's user and the other holds none.
C11_Witness ==
    \E c \in sockets, d \in sockets :
        /\ c # d /\ rooms[c] \cap rooms[d] # {}
        /\ userId[c] # userId[d]
        /\ \E i \in Positions(d, "typing") : inbox[d][i].user = userId[c]
        /\ Positions(c, "typing") = {}

\* C12: a client event has an effect only as the event of a connected socket
\* whose bootstrap call has resolved: the handler that runs is that socket's,
\* and a socket whose bootstrap is pending or failed has no handler suspended
\* on a backend call and no message of its own delivered anywhere.
C12_NoHandlerBeforeBootstrap ==
    /\ [][(inputs' # inputs /\
             <<connectedUsers, sockets, userId, phase, rooms, posts, reads, fans,
               inbox, persisted>>' #
             <<connectedUsers, sockets, userId, phase, rooms, posts, reads, fans,
               inbox, persisted>>) =>
            \E c \in sockets :
                /\ phase[c] = "active"
                /\ \A p \in posts' \ posts : p.conn = c
                /\ \A r \in reads' \ reads : r.conn = c
                /\ \A t \in fans' \ fans : t.conn = c
                /\ \A d \in Conns \ {c} : rooms'[d] = rooms[d]
                /\ \A d \in Conns :
                      \A i \in (Len(inbox[d]) + 1)..Len(inbox'[d]) :
                          inbox'[d][i].user = userId[c]]_vars
    /\ [](\A c \in Conns :
             phase[c] # "active" =>
                 /\ \A p \in posts : p.conn # c
                 /\ \A r \in reads : r.conn # c
                 /\ \A t \in fans : t.conn # c
                 /\ \A d \in Conns : \A i \in 1..Len(inbox[d]) : inbox[d][i].from # c)

\* C12 witness: client events have arrived, all of them on sockets awaiting
\* their bootstrap call, and nothing has come of them.
C12_Witness ==
    /\ inputs > 0
    /\ \A c \in Conns : phase[c] # "active"
    /\ \E c \in sockets : phase[c] = "bootstrapping"
    /\ posts = {} /\ reads = {} /\ fans = {}
    /\ \A c \in Conns : inbox[c] = << >> /\ rooms[c] = {}

\* C13: whenever a backend call made for a connection is rejected with 401
\* (the bootstrap axios.get, the axios.post of sendMessage, the axios.put of
\* openChat, an axios.get of a bookingCreated fan-out), that connection, if it
\* is still connected, is written tokenExpired and is disconnected.
C13_AuthExpiredAlwaysTerminates ==
    [][/\ \A c \in Conns :
            (BootstrapFail(c, "401") /\ c \in sockets) =>
                Got(c, TokenExpired) /\ c \notin sockets'
       /\ \A p \in posts :
            (PostFail(p, "401") /\ p.conn \in sockets) =>
                Got(p.conn, TokenExpired) /\ p.conn \notin sockets'
       /\ \A r \in reads :
            (ReadFail(r, "401") /\ r.conn \in sockets) =>
                Got(r.conn, TokenExpired) /\ r.conn \notin sockets'
       /\ \A t \in fans :
            (FanFail(t, "401") /\ t.conn \in sockets) =>
                Got(t.conn, TokenExpired) /\ t.conn \notin sockets']_vars

\* C14: a step that writes messageError for a sendMessage writes it to the
\* sender alone and writes no messageReceived of that message to anyone; the
\* sender stays connected, the registry and the rooms do not change, and the
\* message is not posted again.
C14_MessageErrorMeansNoMulticast ==
    [][\A p \in posts :
          Got(p.conn, MessageError(p)) =>
              /\ inbox'[p.conn] = Append(inbox[p.conn], MessageError(p))
              /\ \A c \in Conns \ {p.conn} : GotNothing(c)
              /\ sockets' = sockets
              /\ connectedUsers' = connectedUsers
              /\ rooms' = rooms
              /\ \A q \in posts' : q.id # p.id]_vars

\* The conversation ids of the bookings of a list whose conversation is active.
ActiveRooms(data) ==
    {b.conv : b \in {x \in data : x.conv # NoConv /\ x.active}}

\* C15: when the bootstrap axios.get of a connected socket resolves, the socket
\* joins exactly the rooms of the returned bookings whose conversation is
\* active, and bookingsUpdated with the whole list is written to it and to no
\* other socket.
C15_BootstrapJoinsActiveOnly ==
    [][\A c \in sockets, data \in FetchResponses :
          BootstrapOk(c, data) =>
              /\ rooms'[c] = rooms[c] \cup ActiveRooms(data)
              /\ \A d \in Conns \ {c} : rooms'[d] = rooms[d] /\ GotNothing(d)
              /\ inbox'[c] = Append(inbox[c], BookingsUpdated(data))]_vars

\* C16: when the axios.put of an openChat(X) of connection c resolves,
\* messagesRead{X, userId of c} is written to every connection in room X except
\* c and to no other; when it is rejected, whatever the failure, nothing is
\* written to anyone and the registry, the sockets and the rooms stay as they
\* are.
C16_OpenChat ==
    /\ [][\A r \in reads :
             ReadOk(r) =>
                 /\ \A d \in Conns :
                       IF d # r.conn /\ d \in sockets /\ r.conv \in rooms[d]
                       THEN inbox'[d] =
                               Append(inbox[d], MessagesRead(r.conv, userId[r.conn]))
                       ELSE GotNothing(d)
                 /\ r \notin reads']_vars
    /\ [][\A r \in reads, kind \in Failures :
             ReadFail(r, kind) =>
                 /\ inbox' = inbox
                 /\ connectedUsers' = connectedUsers
                 /\ sockets' = sockets
                 /\ rooms' = rooms
                 /\ r \notin reads']_vars

\* C16 witness: two connections share a room; one holds messagesRead for that
\* room in the name of the other's user, the other holds none.
C16_Witness ==
    \E c \in sockets, d \in sockets :
        /\ c # d /\ userId[c] # userId[d]
        /\ \E i \in Positions(d, "messagesRead") :
              /\ inbox[d][i].user = userId[c]
              /\ inbox[d][i].conv \in rooms[c] \cap rooms[d]
        /\ Positions(c, "messagesRead") = {}

\* The number of the conditions of a list that hold.
HowMany(conds) == Cardinality({i \in 1..Len(conds) : conds[i]})

\* C17: when the axios.post of a sendMessage returns and the sender is
\* connected, the sender sees exactly one of: its own messageReceived together
\* with the acknowledgement; messageError; tokenExpired and its disconnection.
\* And a socket that the server disconnects (a step of its bootstrap or of its
\* sendMessage, not the client's own close) is written tokenExpired first.
C17_ExactlyOneOutcome ==
    [][/\ \A p \in posts :
            (p.conn \in sockets /\ \A q \in posts' : q.id # p.id) =>
                LET echo == Got(p.conn, MessageReceived(p))
                    ack == Got(p.conn, Ack(p))
                    error == Got(p.conn, MessageError(p))
                    expired == Got(p.conn, TokenExpired)
                IN /\ HowMany(<<echo \/ ack, error, expired>>) = 1
                   /\ (echo \/ ack) => (echo /\ ack)
                   /\ expired => p.conn \notin sockets'
       /\ \A c \in sockets :
            (c \notin sockets' /\ (phase'[c] # phase[c] \/ posts' # posts)) =>
                Got(c, TokenExpired)]_vars

\* C18: joinRoom(X) of connection c puts c in room X and writes userJoined to
\* the connections already in X, not to c; leaveRoom(X) takes c out of X and
\* writes userLeft to the connections that remain in X, not to c; neither
\* touches the registry or another connection's rooms; and a connection that is
\* not in room X is written no messageReceived, messagesRead or typing packet
\* addressed to X.
C18_JoinLeave ==
    /\ [][\A c \in Conns, conv \in Rooms :
             JoinRoom(c, conv) =>
                 /\ rooms'[c] = rooms[c] \cup {conv}
                 /\ \A d \in Conns \ {c} : rooms'[d] = rooms[d]
                 /\ \A d \in Conns :
                       IF d # c /\ d \in sockets /\ conv \in rooms[d]
                       THEN inbox'[d] = Append(inbox[d], UserJoined(userId[c]))
                       ELSE GotNothing(d)
                 /\ connectedUsers' = connectedUsers]_vars
    /\ [][\A c \in Conns, conv \in Rooms :
             LeaveRoom(c, conv) =>
                 /\ rooms'[c] = rooms[c] \ {conv}
                 /\ \A d \in Conns \ {c} : rooms'[d] = rooms[d]
                 /\ \A d \in Conns :
                       IF d # c /\ d \in sockets /\ conv \in rooms[d]
                       THEN inbox'[d] = Append(inbox[d], UserLeft(userId[c]))
                       ELSE GotNothing(d)
                 /\ connectedUsers' = connectedUsers]_vars
    /\ [][\A c \in Conns, conv \in Rooms :
             conv \notin rooms[c] =>
                 /\ \A i \in (Len(inbox[c]) + 1)..Len(inbox'[c]) :
                       inbox'[c][i].type \in {"messageReceived", "messagesRead"}
                           => inbox'[c][i].conv # conv
                 /\ \A d \in Conns : Typing(d, conv) => GotNothing(c)]_vars

\* C18 witness: a connection has left a room and sent a message to it; the
\* connection that stayed holds userLeft and then the message, the one that
\* left holds no message.
C18_Witness ==
    \E c \in sockets, d \in sockets, conv \in Rooms :
        /\ c # d /\ conv \notin rooms[c] /\ conv \in rooms[d]
        /\ Positions(c, "messageReceived") = {}
        /\ \E i \in Positions(d, "userLeft"), j \in Positions(d, "messageReceived") :
              /\ i < j
              /\ inbox[d][i].user = userId[c]
              /\ inbox[d][j].conv = conv /\ inbox[d][j].from = c

\* The lifecycle state of a connection.
Lifecycle(c) ==
    IF phase[c] = "new" THEN "Connecting"
    ELSE IF c \notin sockets THEN "Disconnected"
    ELSE IF phase[c] = "bootstrapping" THEN "Bootstrapping"
    ELSE "Active"

\* C19: a connection moves only along Connecting -> Bootstrapping -> Active ->
\* Disconnected, or Bootstrapping -> Disconnected; its bootstrap runs once; and
\* once it is Disconnected it is not registered again, joins no room and is
\* given no handlers.
C19_LifecycleMonotone ==
    [][\A c \in Conns :
          /\ Lifecycle(c)' # Lifecycle(c) =>
                <<Lifecycle(c), Lifecycle(c)'>> \in
                    { <<"Connecting", "Bootstrapping">>,
                      <<"Bootstrapping", "Active">>,
                      <<"Bootstrapping", "Disconnected">>,
                      <<"Active", "Disconnected">> }
          /\ phase[c] \in {"active", "failed"} => phase'[c] = phase[c]
          /\ Lifecycle(c) = "Disconnected" =>
                /\ rooms'[c] \subseteq rooms[c]
                /\ phase'[c] = "active" => phase[c] = "active"
                /\ c \in Registered' => c \in Registered]_vars

\* ---------------------------------------------------------------------------
\* Every backend call returns: the bootstrap call of each connection and the
\* axios.post of each sendMessage resolve or are rejected in the end.
BootstrapReturns(c) ==
    \/ \E data \in FetchResponses : BootstrapOk(c, data)
    \/ \E kind \in Failures : BootstrapFail(c, kind)

PostReturns(id) ==
    \E p \in posts :
        /\ p.id = id
        /\ (PostOk(p) \/ \E kind \in Failures : PostFail(p, kind))

\* The steps of the connection lifecycle and of sendMessage, the handlers the
\* progress property is about.
SendNext ==
    \/ \E c \in Conns : \E u \in Handshake(c) : Connect(c, u)
    \/ \E c \in Conns : BootstrapReturns(c)
    \/ \E c \in Conns : ClientDisconnect(c)
    \/ \E c \in Conns : UnheardEvent(c)
    \/ \E c \in Conns, conv \in Rooms, hasAck \in BOOLEAN : SendMessage(c, conv, hasAck)
    \/ \E id \in 1..MaxInputs : PostReturns(id)

FairSpec ==
    /\ Init /\ [][SendNext]_vars
    /\ \A c \in Conns : WF_vars(BootstrapReturns(c))
    /\ \A id \in 1..MaxInputs : WF_vars(PostReturns(id))

\* C20: every connection that is bootstrapping ends up disconnected or Active
\* with bookingsUpdated received, and every sendMessage a handler has taken up
\* ends with the sender acknowledged, written messageError, or disconnected.
C20_Progress ==
    /\ \A c \in Conns :
          (phase[c] = "bootstrapping") ~>
              (\/ c \notin sockets
               \/ phase[c] = "active" /\ Positions(c, "bookingsUpdated") # {})
    /\ \A c \in Conns, id \in 1..MaxInputs :
          (\E p \in posts : p.id = id /\ p.conn = c) ~>
              (\/ c \notin sockets
               \/ \E i \in Positions(c, "ack") \cup Positions(c, "messageError") :
                      inbox[c][i].id = id)

\* C20 witness: a connection is Active with bookingsUpdated received, and a
\* message of its own has been acknowledged and another answered with
\* messageError, with no call left pending.
C20_Witness ==
    \E c \in sockets :
        /\ phase[c] = "active" /\ Positions(c, "bookingsUpdated") # {}
        /\ Positions(c, "ack") # {} /\ Positions(c, "messageError") # {}
        /\ posts = {}
====
